---- MODULE Spec2Model ----
(***************************************************************************)
(* bertology_sklearn.data_utils.token_input_data                           *)
(*                                                                         *)
(* Word-level labelled sequences are turned into fixed-length, subword     *)
(* aligned feature records.  Python lists are sequences (Python index i    *)
(* is position i+1 here); label ids, token ids and mask values keep their  *)
(* Python values.                                                          *)
(***************************************************************************)
EXTENDS Integers, Sequences, FiniteSets, TLC

\* ------------------------------------------------------------------ bounds
MaxWords == 3
MaxSeqLength == 6
MaxRows == 2
MaxRowLen == 2
MaxExamples == 34

\* ---------------------------------------------------------- generic helpers
Range(s) == {s[i] : i \in 1..Len(s)}

Min(a, b) == IF a < b THEN a ELSE b

Max(a, b) == IF a < b THEN b ELSE a

SeqsUpTo(S, n) == UNION {[1..k -> S] : k \in 0..n}

\* Python's [v] * n ; a non-positive n gives the empty list.
Repeat(v, n) == [i \in 1..Max(n, 0) |-> v]

\* Python's s[:n] ; a negative n counts from the end.
SliceTo(s, n) ==
    IF n >= 0 THEN SubSeq(s, 1, Min(n, Len(s)))
    ELSE SubSeq(s, 1, Max(Len(s) + n, 0))

\* ------------------------------------------------------------- the tokenizer
\* The external subword tokenizer: a word yields zero, one or two pieces.
Words == {"", "is", "Paris"}

tokenize(word) ==
    CASE word = "Paris" -> <<"Par", "##is">>
      [] word = "is"    -> <<"is">>
      [] OTHER          -> <<>>

cls_token == "[CLS]"

sep_token == "[SEP]"

TokenId(t) ==
    CASE t = cls_token -> 101
      [] t = sep_token -> 102
      [] t = "Par"     -> 11
      [] t = "##is"    -> 12
      [] t = "is"      -> 13
      [] OTHER         -> 100

convert_tokens_to_ids(toks) == [i \in 1..Len(toks) |-> TokenId(toks[i])]

\* ------------------------------------------------------ the label vocabulary
\* The label strings of the model, in lexicographic (code point) order.
LabelOrder == <<"<END>", "<PAD>", "<START>", "B-LOC", "O">>

Rank(l) == CHOOSE i \in 1..Len(LabelOrder) : LabelOrder[i] = l

\* list(np.unique(labels)): the distinct labels, sorted.
RECURSIVE np_unique(_)
np_unique(S) ==
    IF S = {} THEN <<>>
    ELSE LET least == CHOOSE l \in S : \A m \in S : Rank(l) <= Rank(m)
         IN  <<least>> \o np_unique(S \ {least})

\* The labels get_labels collects: every label of every row; in nested mode
\* every member of every label.
CollectedLabels(rows, nested) ==
    IF ~nested
    THEN UNION {Range(rows[r]) : r \in 1..Len(rows)}
    ELSE UNION {UNION {Range(rows[r][j]) : j \in 1..Len(rows[r])} : r \in 1..Len(rows)}

get_labels(rows, nested) ==
    <<"<PAD>", "<START>">> \o np_unique(CollectedLabels(rows, nested)) \o <<"<END>">>

\* {label: i for i, label in enumerate(label_list)}: a later entry of the
\* list overwrites an earlier one with the same key.
LabelMap(llist) ==
    [l \in Range(llist) |->
        (CHOOSE i \in 1..Len(llist) :
            /\ llist[i] = l
            /\ \A j \in 1..Len(llist) : llist[j] = l => j <= i) - 1]

\* --------------------------------------------------- convert_example_to_features
cls_token_segment_id == 1

pad_token == 0

pad_token_segment_id == 0

pad_token_label_id == -100

sequence_a_segment_id == 0

mask_padding_with_zero == TRUE

\* [0] * len(label_map.keys())
zero_label_id(lmap) == Repeat(0, Cardinality(DOMAIN lmap))

\* label_id = [0] * len(label_map.keys()); label_id[label_map[l]] = 1 for l in label
MultiHot(lmap, members) ==
    [j \in 1..Cardinality(DOMAIN lmap) |->
        IF \E l \in members : lmap[l] = j - 1 THEN 1 ELSE 0]

\* A variant that gives every piece of the word the real label.
WordLabelIds_EveryPiece(lmap, label, k, nested) ==
    IF ~nested
    THEN Repeat(lmap[label], k)
    ELSE Repeat(MultiHot(lmap, Range(label)), k)

\* The label-id entries a word of k >= 1 pieces contributes: the real label
\* for the first piece, the neutral one for the others.
WordLabelIds(lmap, label, k, nested) ==
    IF ~nested
    THEN <<lmap[label]>> \o Repeat(0, k - 1)
    ELSE <<MultiHot(lmap, Range(label))>> \o Repeat(zero_label_id(lmap), k - 1)

\* A variant that scores every piece of the word.
WordLabelMask_EveryPiece(k) == Repeat(1, k)

\* The label-mask entries a word of k >= 1 pieces contributes.
WordLabelMask(k) == <<1>> \o Repeat(pad_token_label_id, k - 1)

\* The lookups of a word's label that raise: an unknown label (KeyError), or
\* in nested mode an index outside the multi-hot vector (IndexError).
LabelLookupError(lmap, label, nested) ==
    IF ~nested
    THEN IF label \in DOMAIN lmap THEN "none" ELSE "KeyError"
    ELSE IF \E l \in Range(label) : l \notin DOMAIN lmap THEN "KeyError"
         ELSE IF \E l \in Range(label) : lmap[l] >= Cardinality(DOMAIN lmap)
              THEN "IndexError"
              ELSE "none"

\* The loop over zip(example.tokens, example.labels), from pair i on.
RECURSIVE ExpandWords(_, _, _, _, _)
ExpandWords(ex, lmap, nested, i, acc) ==
    IF i > Min(Len(ex.tokens), Len(ex.labels)) THEN acc
    ELSE LET word_tokens == tokenize(ex.tokens[i])
             label == ex.labels[i]
             k == Len(word_tokens)
         IN  IF k = 0 THEN ExpandWords(ex, lmap, nested, i + 1, acc)
             ELSE IF LabelLookupError(lmap, label, nested) # "none"
             THEN [acc EXCEPT !.error = LabelLookupError(lmap, label, nested)]
             ELSE ExpandWords(ex, lmap, nested, i + 1,
                    [error      |-> "none",
                     tokens     |-> acc.tokens \o word_tokens,
                     label_ids  |-> acc.label_ids \o WordLabelIds(lmap, label, k, nested),
                     label_mask |-> acc.label_mask \o WordLabelMask(k)])

\* A variant that forgets the extra separator.
special_tokens_count_NoExtra(extra) == IF extra THEN 2 ELSE 2

special_tokens_count(extra) == IF extra THEN 3 ELSE 2

\* A variant that keeps the end of the sequence instead of its start.
Truncate_KeepSuffix(s, msl, extra) ==
    IF Len(s) > msl - special_tokens_count(extra)
    THEN SubSeq(s, Len(s) - Max(msl - special_tokens_count(extra), 0) + 1, Len(s))
    ELSE s

\* if len(tokens) > max_seq_length - special_tokens_count: s = s[:(...)]
Truncate(s, msl, extra) ==
    IF Len(s) > msl - special_tokens_count(extra)
    THEN SliceTo(s, msl - special_tokens_count(extra))
    ELSE s

\* The label-id entry of a sentinel label ('<START>' or '<END>').
SentinelLabelId(lmap, sentinel, nested) ==
    IF ~nested THEN lmap[sentinel] ELSE MultiHot(lmap, {sentinel})

NeutralLabelId(lmap, nested) == IF ~nested THEN 0 ELSE zero_label_id(lmap)

\* The trailing separator(s) with their label and mask entries, and the
\* segment ids of everything placed so far.
AddSeparators(st, lmap, extra, nested) ==
    LET toks == st.tokens \o <<sep_token>>
                  \o (IF extra THEN <<sep_token>> ELSE <<>>)
    IN  [tokens      |-> toks,
         label_ids   |-> st.label_ids \o <<SentinelLabelId(lmap, "<END>", nested)>>
                           \o (IF extra THEN <<NeutralLabelId(lmap, nested)>> ELSE <<>>),
         label_mask  |-> st.label_mask \o <<pad_token_label_id>>
                           \o (IF extra THEN <<pad_token_label_id>> ELSE <<>>),
         segment_ids |-> Repeat(sequence_a_segment_id, Len(toks))]

\* The classifier token, at the end or at the front.  With the token at the
\* front the '<START>' label is prepended in single-label mode and appended
\* in nested mode.
AddClassifier(st, lmap, at_end, nested) ==
    IF at_end
    THEN [tokens      |-> st.tokens \o <<cls_token>>,
          label_ids   |-> st.label_ids \o <<NeutralLabelId(lmap, nested)>>,
          label_mask  |-> st.label_mask \o <<pad_token_label_id>>,
          segment_ids |-> st.segment_ids \o <<cls_token_segment_id>>]
    ELSE [tokens      |-> <<cls_token>> \o st.tokens,
          label_ids   |-> IF ~nested
                          THEN <<lmap["<START>"]>> \o st.label_ids
                          ELSE st.label_ids \o <<MultiHot(lmap, {"<START>"})>>,
          label_mask  |-> <<pad_token_label_id>> \o st.label_mask,
          segment_ids |-> <<cls_token_segment_id>> \o st.segment_ids]

\* One of the five sequences padded with padding_length copies of v.
PadSeq(s, v, padding_length, on_left) ==
    IF on_left THEN Repeat(v, padding_length) \o s
    ELSE s \o Repeat(v, padding_length)

\* The pad value of the label mask.
LabelMaskPad == pad_token_label_id

\* Ids, attention mask and padding of the five sequences.
PadAll(st, lmap, msl, on_left, nested) ==
    LET input_ids == convert_tokens_to_ids(st.tokens)
        input_mask == Repeat(IF mask_padding_with_zero THEN 1 ELSE 0, Len(input_ids))
        padding_length == msl - Len(input_ids)
    IN  [input_ids      |-> PadSeq(input_ids, pad_token, padding_length, on_left),
         attention_mask |-> PadSeq(input_mask, IF mask_padding_with_zero THEN 0 ELSE 1,
                                   padding_length, on_left),
         token_type_ids |-> PadSeq(st.segment_ids, pad_token_segment_id,
                                   padding_length, on_left),
         label_ids      |-> PadSeq(st.label_ids, NeutralLabelId(lmap, nested),
                                   padding_length, on_left),
         label_mask     |-> PadSeq(st.label_mask, LabelMaskPad, padding_length, on_left)]

\* The five final assertions.
LengthsOk(f, msl) ==
    /\ Len(f.input_ids) = msl
    /\ Len(f.attention_mask) = msl
    /\ Len(f.token_type_ids) = msl
    /\ Len(f.label_ids) = msl
    /\ Len(f.label_mask) = msl

Raised(kind) == [status |-> kind]

Returned(f) ==
    [status         |-> "ok",
     input_ids      |-> f.input_ids,
     attention_mask |-> f.attention_mask,
     token_type_ids |-> f.token_type_ids,
     label_ids      |-> f.label_ids,
     label_mask     |-> f.label_mask]

\* convert_example_to_features: the InputFeatures returned, or the exception
\* raised.
convert_example_to_features(ex, msl, lmap, at_end, extra, on_left, nested) ==
    LET expanded == ExpandWords(ex, lmap, nested, 1,
                      [error |-> "none", tokens |-> <<>>,
                       label_ids |-> <<>>, label_mask |-> <<>>])
    IN  IF expanded.error # "none" THEN Raised(expanded.error)
        ELSE IF "<END>" \notin DOMAIN lmap THEN Raised("KeyError")
        ELSE IF ~at_end /\ "<START>" \notin DOMAIN lmap THEN Raised("KeyError")
        ELSE IF nested /\ \E l \in {"<END>"} \cup (IF at_end THEN {} ELSE {"<START>"}) :
                             lmap[l] >= Cardinality(DOMAIN lmap)
        THEN Raised("IndexError")
        ELSE
        LET truncated == [tokens     |-> Truncate(expanded.tokens, msl, extra),
                          label_ids  |-> Truncate(expanded.label_ids, msl, extra),
                          label_mask |-> Truncate(expanded.label_mask, msl, extra)]
            withSep == AddSeparators(truncated, lmap, extra, nested)
            withCls == AddClassifier(withSep, lmap, at_end, nested)
            padded == PadAll(withCls, lmap, msl, on_left, nested)
        IN  IF LengthsOk(padded, msl) THEN Returned(padded)
            ELSE Raised("AssertionError")

\* ------------------------------------------------------------ DataProcessor
InputExample(guid, toks, labs) == [guid |-> guid, tokens |-> toks, labels |-> labs]

\* np.full_like(words_list, fill_value='O'): an 'O' for every word.  In nested
\* mode get_labels takes list(label) of each entry, the characters of 'O',
\* which is the list ['O'].
full_like_O(words, nested) ==
    [r \in 1..Len(words) |->
        Repeat(IF ~nested THEN "O" ELSE <<"O">>, Len(words[r]))]

\* The labels get_examples gives a row when y is None.
DefaultLabels(toks, nested) ==
    IF ~nested THEN Repeat("O", Len(toks)) ELSE <<Repeat("O", Len(toks))>>

\* DataProcessor.get_examples over zip(words_list, labels_list).
get_examples(words, labels, y_is_none, nested) ==
    [i \in 1..Min(Len(words), Len(labels)) |->
        InputExample(i, words[i],
            IF y_is_none THEN DefaultLabels(words[i], nested) ELSE labels[i])]

\* ------------------------------------------- convert_examples_to_features
\* Pool(1, ...): the number of worker processes.
Processes == 1

\* p.imap(part_fn, examples, chunksize=32)
chunksize == 32

\* The number of chunks imap cuts n examples into.
NumChunks(n) == (n + chunksize - 1) \div chunksize

\* The positions of the examples of chunk i (i = 0 is the first chunk).
ChunkFirst(i) == i * chunksize + 1

ChunkLast(i, n) == Min((i + 1) * chunksize, n)

\* part_fn: the encoder with the options convert_examples_to_features binds.
part_fn(ex, msl, lmap, nested) ==
    convert_example_to_features(ex, msl, lmap, FALSE, FALSE, FALSE, nested)

\* What a worker makes of chunk i: list(map(part_fn, chunk)), or the first
\* exception raised.  calls is how many examples of the chunk it encoded.
RunChunk(exs, i, msl, lmap, nested) ==
    LET lo == ChunkFirst(i)
        hi == ChunkLast(i, Len(exs))
        recs == [k \in 1..(hi - lo + 1) |-> part_fn(exs[lo + k - 1], msl, lmap, nested)]
        bad == {k \in 1..(hi - lo + 1) : recs[k].status # "ok"}
        first_bad == CHOOSE k \in bad : \A m \in bad : k <= m
    IN  IF bad = {}
        THEN [i |-> i, ok |-> TRUE, value |-> recs, calls |-> hi - lo + 1]
        ELSE [i |-> i, ok |-> FALSE, value |-> <<recs[first_bad]>>, calls |-> first_bad]

\* A variant that stacks the rows last record first.
TensorDataset_Reversed(fs) ==
    [input_ids      |-> [i \in 1..Len(fs) |-> fs[Len(fs) + 1 - i].input_ids],
     attention_mask |-> [i \in 1..Len(fs) |-> fs[Len(fs) + 1 - i].attention_mask],
     token_type_ids |-> [i \in 1..Len(fs) |-> fs[Len(fs) + 1 - i].token_type_ids],
     label_ids      |-> [i \in 1..Len(fs) |-> fs[Len(fs) + 1 - i].label_ids],
     label_mask     |-> [i \in 1..Len(fs) |-> fs[Len(fs) + 1 - i].label_mask]]

\* The five tensors stacked from the records, row i from record i.
TensorDataset(fs) ==
    [input_ids      |-> [i \in 1..Len(fs) |-> fs[i].input_ids],
     attention_mask |-> [i \in 1..Len(fs) |-> fs[i].attention_mask],
     token_type_ids |-> [i \in 1..Len(fs) |-> fs[i].token_type_ids],
     label_ids      |-> [i \in 1..Len(fs) |-> fs[i].label_ids],
     label_mask     |-> [i \in 1..Len(fs) |-> fs[i].label_mask]]

EmptyDataset == TensorDataset(<<>>)

\* convert_examples_to_features as a function of its arguments: the dataset,
\* or the exception of the first example that raises.
convert_examples_to_features(exs, msl, llist, nested) ==
    LET lmap == LabelMap(llist)
        recs == [k \in 1..Len(exs) |-> part_fn(exs[k], msl, lmap, nested)]
        bad == {k \in 1..Len(exs) : recs[k].status # "ok"}
    IN  IF bad = {} THEN [status |-> "ok", dataset |-> TensorDataset(recs)]
        ELSE [status  |-> recs[CHOOSE k \in bad : \A m \in bad : k <= m].status,
              dataset |-> EmptyDataset]

\* ------------------------------------------------- load_and_cache_examples
\* list(filter(None, path.split('/'))).pop(): the last non-empty component of
\* the path, given as the list of its components.
RECURSIVE LastComponent(_)
LastComponent(path) ==
    IF path[Len(path)] # "" THEN path[Len(path)]
    ELSE LastComponent(SubSeq(path, 1, Len(path) - 1))

\* The name of the cache file, "cached_{split}_{model}_{max_seq_length}".
cached_features_file(is_eval, path, msl) ==
    <<IF is_eval THEN "test" ELSE "train", LastComponent(path), msl>>

\* A variant that reuses the file in evaluation mode too.
UseCache_IgnoreEvaluate(file_exists, overwrite, is_eval) == file_exists /\ ~overwrite

\* os.path.exists(cached_features_file) and not args.overwrite_cache and not evaluate
UseCache(file_exists, overwrite, is_eval) == file_exists /\ ~overwrite /\ ~is_eval

\* ------------------------------------------------------------------ the state
VARIABLES
    example,            \* the InputExample handed to the encoder
    max_seq_length,
    label_list,
    is_nested,
    cls_token_at_end,
    sep_token_extra,
    pad_on_left,
    features,           \* what convert_example_to_features returned or raised
    pc,
    X,                  \* DataProcessor's arguments
    y,
    words_list,         \* DataProcessor's fields
    labels_list,
    examples,
    label_map,
    taskqueue,          \* the chunks not yet taken by a worker
    worker,             \* per worker process: the chunk it is working on
    outqueue,           \* the chunk results on their way to the iterator
    imap_index,         \* IMapIterator: the next chunk to hand out
    imap_unsorted,      \*               results that arrived early
    imap_items,         \*               results ready to be yielded
    features_list,      \* the list of records collected from imap
    encode_calls,       \* per example: how often the encoder was invoked
    dataset,
    cache_files,        \* the cache directory: per file name, its content
    evaluate,           \* the arguments of load_and_cache_examples
    overwrite_cache,
    model_name_or_path,
    args_label_list,
    hist                \* what the current call has done so far

encVars == <<example, cls_token_at_end, sep_token_extra, pad_on_left, features>>

procVars == <<X, y, words_list, labels_list>>

poolVars == <<taskqueue, worker, outqueue, imap_index, imap_unsorted, imap_items,
              features_list, encode_calls>>

cacheVars == <<cache_files, evaluate, overwrite_cache, model_name_or_path,
               args_label_list, hist>>

vars == <<example, max_seq_length, label_list, is_nested, cls_token_at_end,
          sep_token_extra, pad_on_left, features, pc,
          X, y, words_list, labels_list, examples, label_map,
          taskqueue, worker, outqueue, imap_index, imap_unsorted, imap_items,
          features_list, encode_calls, dataset,
          cache_files, evaluate, overwrite_cache, model_name_or_path,
          args_label_list, hist>>

\* The labels a word can carry: a string, or in nested mode a list of strings.
WordLabels(nested) ==
    IF ~nested THEN {"B-LOC", "O"} ELSE {<<"O">>, <<"B-LOC", "O">>}

\* The vocabularies handed to the encoder: built by get_labels from a corpus
\* that uses both labels, and from one that uses 'O' only.
LabelLists ==
    {get_labels(<< <<"B-LOC", "O">> >>, FALSE), get_labels(<< <<"O">> >>, FALSE)}

NoFeatures == Raised("none")

NoY == [none |-> TRUE, rows |-> <<>>]

EncoderIdle ==
    /\ example = InputExample(0, <<>>, <<>>)
    /\ cls_token_at_end = FALSE
    /\ sep_token_extra = FALSE
    /\ pad_on_left = FALSE
    /\ features = NoFeatures

ProcessorIdle ==
    /\ X = <<>>
    /\ y = NoY
    /\ words_list = <<>>
    /\ labels_list = <<>>

Idle == [busy |-> FALSE, i |-> 0]

PoolIdle ==
    /\ taskqueue = <<>>
    /\ worker = [w \in 1..Processes |-> Idle]
    /\ outqueue = <<>>
    /\ imap_index = 0
    /\ imap_unsorted = {}
    /\ imap_items = <<>>
    /\ features_list = <<>>
    /\ encode_calls = <<>>

\* Two spellings of the same model directory.
ModelPaths == {<<"bert-base">>, <<"models", "bert-base", "">>}

CacheSeqLengths == {1, MaxSeqLength}

CacheFileNames ==
    {cached_features_file(e, m, n) : e \in BOOLEAN, m \in ModelPaths, n \in CacheSeqLengths}

Absent == [exists |-> FALSE, data |-> EmptyDataset]

\* A file left by an earlier run.
StaleFile == [exists |-> TRUE, data |-> EmptyDataset]

NoHistory ==
    [existed |-> FALSE, loaded |-> FALSE, encodes |-> 0, writes |-> 0,
     at_entry |-> [f \in CacheFileNames |-> Absent]]

CacheIdle ==
    /\ cache_files = [f \in CacheFileNames |-> Absent]
    /\ evaluate = FALSE
    /\ overwrite_cache = FALSE
    /\ model_name_or_path = <<"bert-base">>
    /\ args_label_list = <<>>
    /\ hist = NoHistory

\* ------------------------------------------- Spec: one call of the encoder
Init ==
    /\ is_nested \in BOOLEAN
    /\ example \in {InputExample(1, t, l) :
                        t \in SeqsUpTo(Words, MaxWords),
                        l \in SeqsUpTo(WordLabels(is_nested), MaxWords)}
    /\ max_seq_length \in 0..MaxSeqLength
    /\ label_list \in LabelLists
    /\ cls_token_at_end \in BOOLEAN
    /\ sep_token_extra \in BOOLEAN
    /\ pad_on_left \in BOOLEAN
    /\ features = NoFeatures
    /\ pc = "call"
    /\ ProcessorIdle
    /\ examples = <<>>
    /\ label_map = LabelMap(label_list)
    /\ PoolIdle
    /\ dataset = EmptyDataset
    /\ CacheIdle

EncodeExample ==
    /\ pc = "call"
    /\ features' = convert_example_to_features(example, max_seq_length,
                       label_map, cls_token_at_end, sep_token_extra,
                       pad_on_left, is_nested)
    /\ pc' = "done"
    /\ UNCHANGED <<example, max_seq_length, label_list, is_nested,
                   cls_token_at_end, sep_token_extra, pad_on_left>>
    /\ UNCHANGED <<procVars, examples, label_map, poolVars, dataset, cacheVars>>

Next == EncodeExample

Spec == Init /\ [][Next]_vars

\* --------------------------------------------- SpecProc: the DataProcessor
\* The labels of the corpora: the two real ones and a label that spells a
\* sentinel.
CorpusLabels(nested) ==
    IF ~nested THEN {"B-LOC", "O", "<PAD>"}
    ELSE {<<"O">>, <<"B-LOC", "O">>, <<"<PAD>">>}

CorpusWords == {"is"}

\* The rows of X, and for each X the y that goes with it: None, or one label
\* per word.
CorpusX == SeqsUpTo(SeqsUpTo(CorpusWords, MaxRowLen), MaxRows)

LabelRowsFor(x, nested) ==
    {rows \in [1..Len(x) -> SeqsUpTo(CorpusLabels(nested), MaxRowLen)] :
        \A r \in 1..Len(x) : Len(rows[r]) = Len(x[r])}

InitProc ==
    /\ is_nested \in BOOLEAN
    /\ X \in CorpusX
    /\ y \in {NoY} \cup {[none |-> FALSE, rows |-> rows] : rows \in LabelRowsFor(X, is_nested)}
    /\ words_list = <<>>
    /\ labels_list = <<>>
    /\ examples = <<>>
    /\ label_list = <<>>
    /\ label_map = LabelMap(<<>>)
    /\ max_seq_length = 0
    /\ EncoderIdle
    /\ PoolIdle
    /\ dataset = EmptyDataset
    /\ CacheIdle
    /\ pc = "new"

\* DataProcessor.__init__
DataProcessorInit ==
    /\ pc = "new"
    /\ words_list' = X
    /\ labels_list' = IF y.none THEN full_like_O(X, is_nested) ELSE y.rows
    /\ pc' = "constructed"
    /\ UNCHANGED <<X, y, examples, label_list, label_map, is_nested, max_seq_length, encVars, poolVars,
                   dataset, cacheVars>>

GetExamples ==
    /\ pc = "constructed"
    /\ examples' = get_examples(words_list, labels_list, y.none, is_nested)
    /\ pc' = "examples"
    /\ UNCHANGED <<procVars, label_list, label_map, is_nested, max_seq_length, encVars, poolVars,
                   dataset, cacheVars>>

GetLabels ==
    /\ pc = "examples"
    /\ label_list' = get_labels(labels_list, is_nested)
    /\ pc' = "labels"
    /\ UNCHANGED <<procVars, examples, label_map, is_nested, max_seq_length, encVars, poolVars,
                   dataset, cacheVars>>

\* The first statement of convert_examples_to_features.
MakeLabelMap ==
    /\ pc = "labels"
    /\ label_map' = LabelMap(label_list)
    /\ pc' = "mapped"
    /\ UNCHANGED <<procVars, examples, label_list, is_nested, max_seq_length, encVars, poolVars,
                   dataset, cacheVars>>

NextProc == DataProcessorInit \/ GetExamples \/ GetLabels \/ MakeLabelMap

SpecProc == InitProc /\ [][NextProc]_vars

\* ----------------------- SpecPool: convert_examples_to_features on the pool
\* Three different examples; the corpus repeats them in turn.
Samples(nested) ==
    IF ~nested
    THEN << [tokens |-> <<"Paris", "is">>, labels |-> <<"B-LOC", "O">>],
            [tokens |-> <<"is">>,          labels |-> <<"O">>],
            [tokens |-> <<"is", "Paris">>, labels |-> <<"O", "O">>] >>
    ELSE << [tokens |-> <<"Paris", "is">>, labels |-> << <<"B-LOC", "O">>, <<"O">> >>],
            [tokens |-> <<"is">>,          labels |-> << <<"O">> >>],
            [tokens |-> <<"is", "Paris">>, labels |-> << <<"O">>, <<"O">> >>] >>

SampleCorpus(n, shift, nested) ==
    [i \in 1..n |->
        LET smp == Samples(nested)[((i + shift) % Len(Samples(nested))) + 1]
        IN  InputExample(i, smp.tokens, smp.labels)]

InitPool ==
    /\ is_nested \in BOOLEAN
    /\ examples \in {SampleCorpus(n, shift, is_nested) :
                        n \in 0..MaxExamples, shift \in 0..2}
    /\ label_list \in LabelLists
    /\ max_seq_length \in {1, MaxSeqLength}
    /\ label_map = LabelMap(<<>>)
    /\ ProcessorIdle
    /\ EncoderIdle
    /\ PoolIdle
    /\ dataset = EmptyDataset
    /\ CacheIdle
    /\ pc = "call"

\* label_map, the pool and the imap job: the chunks go to the task queue.
StartImap ==
    /\ pc = "call"
    /\ label_map' = LabelMap(label_list)
    /\ taskqueue' = [k \in 1..NumChunks(Len(examples)) |-> k - 1]
    /\ encode_calls' = [k \in 1..Len(examples) |-> 0]
    /\ pc' = "imap"
    /\ UNCHANGED <<worker, outqueue, imap_index, imap_unsorted, imap_items,
                   features_list, dataset>>
    /\ UNCHANGED <<examples, label_list, is_nested, max_seq_length, encVars, procVars, cacheVars>>

\* A free worker takes the next chunk.
WorkerTake(w) ==
    /\ pc = "imap"
    /\ ~worker[w].busy
    /\ taskqueue # <<>>
    /\ worker' = [worker EXCEPT ![w] = [busy |-> TRUE, i |-> Head(taskqueue)]]
    /\ taskqueue' = Tail(taskqueue)
    /\ UNCHANGED <<outqueue, imap_index, imap_unsorted, imap_items, features_list,
                   encode_calls, dataset>>
    /\ UNCHANGED <<examples, label_list, label_map, is_nested, max_seq_length, pc,
                   encVars, procVars, cacheVars>>

\* The worker maps part_fn over its chunk and sends the result.
WorkerRun(w) ==
    /\ pc = "imap"
    /\ worker[w].busy
    /\ LET res == RunChunk(examples, worker[w].i, max_seq_length, label_map, is_nested)
       IN  /\ outqueue' = Append(outqueue, [i |-> res.i, ok |-> res.ok, value |-> res.value])
           /\ encode_calls' =
                 [k \in 1..Len(examples) |->
                     IF k >= ChunkFirst(res.i) /\ k < ChunkFirst(res.i) + res.calls
                     THEN encode_calls[k] + 1 ELSE encode_calls[k]]
    /\ worker' = [worker EXCEPT ![w] = Idle]
    /\ UNCHANGED <<taskqueue, imap_index, imap_unsorted, imap_items, features_list, dataset>>
    /\ UNCHANGED <<examples, label_list, label_map, is_nested, max_seq_length, pc,
                   encVars, procVars, cacheVars>>

\* The results that can be handed out once chunk idx is: those waiting in
\* unsorted, in index order.
RECURSIVE ReadyFrom(_, _)
ReadyFrom(idx, unsorted) ==
    IF \E r \in unsorted : r.i = idx
    THEN <<CHOOSE r \in unsorted : r.i = idx>> \o ReadyFrom(idx + 1, unsorted)
    ELSE <<>>

\* The result handler: a result with the expected index is made ready together
\* with the early ones that follow it, another one is put aside.
HandleResult ==
    /\ pc = "imap"
    /\ outqueue # <<>>
    /\ LET res == Head(outqueue)
           ready == ReadyFrom(imap_index, imap_unsorted \cup {res})
       IN  /\ imap_items' = imap_items \o ready
           /\ imap_index' = imap_index + Len(ready)
           /\ imap_unsorted' = (imap_unsorted \cup {res}) \ Range(ready)
    /\ outqueue' = Tail(outqueue)
    /\ UNCHANGED <<taskqueue, worker, features_list, encode_calls, dataset>>
    /\ UNCHANGED <<examples, label_list, label_map, is_nested, max_seq_length, pc,
                   encVars, procVars, cacheVars>>

\* list(tqdm(p.imap(...))) takes the next ready chunk: its records, or its
\* exception, which ends the call.
TakeItems ==
    /\ pc = "imap"
    /\ imap_items # <<>>
    /\ IF Head(imap_items).ok
       THEN /\ features_list' = features_list \o Head(imap_items).value
            /\ pc' = "imap"
       ELSE /\ features_list' = features_list
            /\ pc' = "raised"
    /\ imap_items' = Tail(imap_items)
    /\ UNCHANGED <<taskqueue, worker, outqueue, imap_index, imap_unsorted,
                   encode_calls, dataset>>
    /\ UNCHANGED <<examples, label_list, label_map, is_nested, max_seq_length,
                   encVars, procVars, cacheVars>>

\* Every chunk was handed out: the tensors are stacked and returned.
StackDataset ==
    /\ pc = "imap"
    /\ imap_index = NumChunks(Len(examples))
    /\ imap_items = <<>>
    /\ dataset' = TensorDataset(features_list)
    /\ pc' = "done"
    /\ UNCHANGED <<taskqueue, worker, outqueue, imap_index, imap_unsorted, imap_items,
                   features_list, encode_calls>>
    /\ UNCHANGED <<examples, label_list, label_map, is_nested, max_seq_length,
                   encVars, procVars, cacheVars>>

NextPool ==
    \/ StartImap
    \/ \E w \in 1..Processes : WorkerTake(w)
    \/ \E w \in 1..Processes : WorkerRun(w)
    \/ HandleResult
    \/ TakeItems
    \/ StackDataset

SpecPool == InitPool /\ [][NextPool]_vars

\* ------------------------------- SpecCache: calls of load_and_cache_examples
\* The processors handed to the calls: a labelled corpus and an unlabelled one.
Processors ==
    { [X |-> << <<"Paris", "is">> >>, y |-> [none |-> FALSE, rows |-> << <<"B-LOC", "O">> >>]],
      [X |-> << <<"is">>, <<"is", "Paris">> >>, y |-> NoY] }

ThisFile == cached_features_file(evaluate, model_name_or_path, max_seq_length)

InitCache ==
    /\ cache_files \in [CacheFileNames -> {Absent, StaleFile}]
    /\ evaluate = FALSE
    /\ overwrite_cache = FALSE
    /\ model_name_or_path = <<"bert-base">>
    /\ args_label_list = <<>>
    /\ hist = [NoHistory EXCEPT !.at_entry = cache_files]
    /\ max_seq_length = 1
    /\ is_nested = FALSE
    /\ label_list = <<>>
    /\ label_map = LabelMap(<<>>)
    /\ examples = <<>>
    /\ dataset = EmptyDataset
    /\ ProcessorIdle
    /\ EncoderIdle
    /\ PoolIdle
    /\ pc = "idle"

\* A call of load_and_cache_examples(args, tokenizer, processor, evaluate).
CallLoadAndCache ==
    /\ pc = "idle"
    /\ evaluate' \in BOOLEAN
    /\ overwrite_cache' \in BOOLEAN
    /\ model_name_or_path' \in ModelPaths
    /\ max_seq_length' \in CacheSeqLengths
    /\ args_label_list' \in LabelLists
    /\ \E processor \in Processors :
          /\ X' = processor.X
          /\ y' = processor.y
          /\ words_list' = processor.X
          /\ labels_list' = IF processor.y.none THEN full_like_O(processor.X, is_nested)
                            ELSE processor.y.rows
    /\ hist' = [NoHistory EXCEPT !.at_entry = cache_files]
    /\ pc' = "check"
    /\ UNCHANGED <<cache_files, dataset, examples, label_list, label_map, is_nested,
                   encVars, poolVars>>

\* The test of line 130.
CheckCache ==
    /\ pc = "check"
    /\ hist' = [hist EXCEPT !.existed = cache_files[ThisFile].exists]
    /\ pc' = IF UseCache(cache_files[ThisFile].exists, overwrite_cache, evaluate)
             THEN "load" ELSE "create"
    /\ UNCHANGED <<cache_files, evaluate, overwrite_cache, model_name_or_path,
                   args_label_list, max_seq_length, dataset, examples, label_list,
                   label_map, is_nested, procVars, encVars, poolVars>>

\* dataset = torch.load(cached_features_file)
LoadCached ==
    /\ pc = "load"
    /\ dataset' = cache_files[ThisFile].data
    /\ hist' = [hist EXCEPT !.loaded = TRUE]
    /\ pc' = "return"
    /\ UNCHANGED <<cache_files, evaluate, overwrite_cache, model_name_or_path,
                   args_label_list, max_seq_length, examples, label_list,
                   label_map, is_nested, procVars, encVars, poolVars>>

\* The examples, the label list and the encoded dataset; an exception of the
\* encoder ends the call.
CreateDataset ==
    /\ pc = "create"
    /\ LET exs == get_examples(words_list, labels_list, y.none, is_nested)
           llist == IF ~evaluate THEN get_labels(labels_list, is_nested)
                    ELSE args_label_list
           built == convert_examples_to_features(exs, max_seq_length, llist, is_nested)
       IN  /\ examples' = exs
           /\ label_list' = llist
           /\ label_map' = LabelMap(llist)
           /\ dataset' = IF built.status = "ok" THEN built.dataset ELSE dataset
           /\ pc' = IF built.status # "ok" THEN "raised"
                    ELSE IF ~evaluate THEN "save" ELSE "return"
    /\ hist' = [hist EXCEPT !.encodes = @ + 1]
    /\ UNCHANGED <<cache_files, evaluate, overwrite_cache, model_name_or_path,
                   args_label_list, max_seq_length, is_nested, procVars, encVars,
                   poolVars>>

\* torch.save(dataset, cached_features_file)
SaveCache ==
    /\ pc = "save"
    /\ cache_files' = [cache_files EXCEPT ![ThisFile] = [exists |-> TRUE, data |-> dataset]]
    /\ hist' = [hist EXCEPT !.writes = @ + 1]
    /\ pc' = "return"
    /\ UNCHANGED <<evaluate, overwrite_cache, model_name_or_path, args_label_list,
                   max_seq_length, dataset, examples, label_list, label_map,
                   is_nested, procVars, encVars, poolVars>>

\* The call returns its dataset, or its exception reaches the caller.
ReturnDataset ==
    /\ pc \in {"return", "raised"}
    /\ pc' = "idle"
    /\ UNCHANGED <<cacheVars, max_seq_length, dataset, examples, label_list, label_map,
                   is_nested, procVars, encVars, poolVars>>

NextCache ==
    \/ CallLoadAndCache
    \/ CheckCache
    \/ LoadCached
    \/ CreateDataset
    \/ SaveCache
    \/ ReturnDataset

SpecCache == InitCache /\ [][NextCache]_vars

\* ----------------------------------------------- the layout of a record
\* The words the encoder pairs with a label.
Paired == Min(Len(example.tokens), Len(example.labels))

WellFormed == Len(example.tokens) = Len(example.labels)

LabelsInVocabulary ==
    \A j \in 1..Len(example.labels) :
        IF ~is_nested THEN example.labels[j] \in Range(label_list)
        ELSE Range(example.labels[j]) \subseteq Range(label_list)

PieceCount(j) == Len(tokenize(example.tokens[j]))

\* The number of subword pieces of the paired words before word j.
RECURSIVE PiecesBefore(_)
PiecesBefore(j) == IF j <= 1 THEN 0 ELSE PiecesBefore(j - 1) + PieceCount(j - 1)

ExpandedCount == PiecesBefore(Paired + 1)

Reserved == IF sep_token_extra THEN 3 ELSE 2

KeptCount == Min(ExpandedCount, max_seq_length - Reserved)

PaddingLength == max_seq_length - KeptCount - Reserved

\* The position in the record of expanded piece p (p = 0 is the first piece).
PiecePos(p) ==
    p + 1 + (IF cls_token_at_end THEN 0 ELSE 1)
          + (IF pad_on_left THEN PaddingLength ELSE 0)

\* The position of label_ids that holds the label entry of piece p: in nested
\* mode with the classifier token in front, label_ids has no entry in front.
LabelPos(p) == PiecePos(p) - (IF is_nested /\ ~cls_token_at_end THEN 1 ELSE 0)

FirstSepPos == PiecePos(KeptCount)

ClsPos ==
    IF cls_token_at_end THEN PiecePos(KeptCount) + Reserved - 1
    ELSE PiecePos(0) - 1

\* The word that expanded piece p belongs to, and the piece itself.
WordOfPiece(p) ==
    CHOOSE j \in 1..Paired : PiecesBefore(j) <= p /\ p < PiecesBefore(j) + PieceCount(j)

PieceAt(p) == tokenize(example.tokens[WordOfPiece(p)])[p - PiecesBefore(WordOfPiece(p)) + 1]

IsFirstPiece(p) == p = PiecesBefore(WordOfPiece(p))

IsFirstPiecePos(i) == \E p \in 0..(KeptCount - 1) : i = PiecePos(p) /\ IsFirstPiece(p)

IsContinuationPos(i) == \E p \in 0..(KeptCount - 1) : i = PiecePos(p) /\ ~IsFirstPiece(p)

IsPaddingPos(i) ==
    IF pad_on_left THEN i <= PaddingLength ELSE i > max_seq_length - PaddingLength

IsSpecialPos(i) == ~IsPaddingPos(i) /\ ~IsFirstPiecePos(i) /\ ~IsContinuationPos(i)

\* The entry of label_ids that stands for a set of labels of the vocabulary.
IndexOfLabel(l) == (CHOOSE n \in 1..Len(label_list) : label_list[n] = l) - 1

ExpectedLabelEntry(members) ==
    IF ~is_nested THEN IndexOfLabel(CHOOSE l \in members : TRUE)
    ELSE [n \in 1..Len(label_list) |-> IF label_list[n] \in members THEN 1 ELSE 0]

MembersOf(label) == IF ~is_nested THEN {label} ELSE Range(label)

NeutralEntry == IF ~is_nested THEN 0 ELSE [n \in 1..Len(label_list) |-> 0]

DefaultOptions == ~cls_token_at_end /\ ~sep_token_extra /\ ~pad_on_left

RecordReturned == pc = "done" /\ features.status = "ok"

FiveLengthsAre(n) ==
    /\ Len(features.input_ids) = n
    /\ Len(features.attention_mask) = n
    /\ Len(features.token_type_ids) = n
    /\ Len(features.label_ids) = n
    /\ Len(features.label_mask) = n

\* ------------------------------------------------------------------ C1
\* C1 as stated: for every well-formed example whose labels are in the
\* vocabulary and every configuration, every max_seq_length included, the call
\* returns a record whose five sequences have length max_seq_length.
C1_LengthInvariant ==
    (pc = "done" /\ WellFormed /\ LabelsInVocabulary)
        => (features.status = "ok" /\ FiveLengthsAre(max_seq_length))

\* C1 amended: the same, for every max_seq_length that leaves room for the
\* special tokens (max_seq_length >= 3 with the extra separator, >= 2 without).
C1_LengthInvariantWithRoom ==
    (pc = "done" /\ WellFormed /\ LabelsInVocabulary /\ max_seq_length >= Reserved)
        => (features.status = "ok" /\ FiveLengthsAre(max_seq_length))

C1_Witness ==
    /\ RecordReturned /\ WellFormed /\ LabelsInVocabulary
    /\ sep_token_extra /\ is_nested /\ pad_on_left
    /\ ExpandedCount > max_seq_length - Reserved
    /\ max_seq_length > Reserved
    /\ FiveLengthsAre(max_seq_length)

\* ------------------------------------------------------------------ C2
\* C2 as stated: with default options every label_mask value is 1, 0 or -100:
\* 1 at the first piece of a retained word, 0 at a padding position, -100 at a
\* continuation piece and at a special token.
C2_MaskPartition ==
    (RecordReturned /\ DefaultOptions) =>
        \A i \in 1..max_seq_length :
            /\ features.label_mask[i] \in {1, 0, -100}
            /\ features.label_mask[i] = 1 <=> IsFirstPiecePos(i)
            /\ features.label_mask[i] = 0 <=> IsPaddingPos(i)
            /\ features.label_mask[i] = -100 <=> (IsContinuationPos(i) \/ IsSpecialPos(i))

\* C2 amended: with default options every label_mask value is 1 or -100: 1 at
\* the first piece of a retained word and -100 everywhere else, the padding
\* positions included.
C2_MaskPartitionPadIgnored ==
    (RecordReturned /\ DefaultOptions) =>
        \A i \in 1..max_seq_length :
            /\ features.label_mask[i] \in {1, -100}
            /\ features.label_mask[i] = 1 <=> IsFirstPiecePos(i)
            /\ features.label_mask[i] = -100 <=>
                   (IsContinuationPos(i) \/ IsSpecialPos(i) \/ IsPaddingPos(i))

C2_Witness ==
    /\ RecordReturned /\ DefaultOptions
    /\ PaddingLength > 0
    /\ \E i \in 1..max_seq_length : IsContinuationPos(i) /\ features.label_mask[i] = -100
    /\ \E i \in 1..max_seq_length : IsFirstPiecePos(i) /\ features.label_mask[i] = 1
    /\ \E i \in 1..max_seq_length : IsPaddingPos(i) /\ features.label_mask[i] = -100

\* ------------------------------------------------------------------ C3
\* The record holds piece q (q = 0 is the first) of word j at its position,
\* with the real label and mask 1 for the first piece and the neutral label
\* and mask -100 for the others.
WordPieceInRecord(j, q) ==
    LET i == PiecePos(PiecesBefore(j) + q)
    IN  /\ i \in 1..max_seq_length
        /\ features.input_ids[i] = TokenId(tokenize(example.tokens[j])[q + 1])
        /\ IF q = 0
           THEN /\ features.label_ids[i] = IndexOfLabel(example.labels[j])
                /\ features.label_mask[i] = 1
           ELSE /\ features.label_ids[i] = 0
                /\ features.label_mask[i] = -100

\* C3 as stated: in single-label mode, for any max_seq_length, every word of k > 1
\* pieces has one position with its real label and mask 1 and k-1 further
\* positions with label 0 and mask -100.
C3_FirstSubwordLabeling ==
    (RecordReturned /\ ~is_nested /\ WellFormed) =>
        \A j \in 1..Len(example.tokens) :
            PieceCount(j) > 1 =>
                \A q \in 0..(PieceCount(j) - 1) : WordPieceInRecord(j, q)

\* C3 amended: the same for every word whose k pieces all lie within the first
\* max_seq_length - reserved pieces of the example, i.e. survive truncation.
C3_FirstSubwordLabelingKept ==
    (RecordReturned /\ ~is_nested) =>
        \A j \in 1..Paired :
            (PieceCount(j) > 1 /\ PiecesBefore(j) + PieceCount(j) <= max_seq_length - Reserved) =>
                \A q \in 0..(PieceCount(j) - 1) : WordPieceInRecord(j, q)

C3_Witness ==
    /\ RecordReturned /\ ~is_nested /\ WellFormed
    /\ ExpandedCount > max_seq_length - Reserved
    /\ \E j \in 1..Paired :
          /\ PieceCount(j) > 1
          /\ PiecesBefore(j) > 0
          /\ PiecesBefore(j) + PieceCount(j) <= max_seq_length - Reserved
          /\ example.labels[j] = "B-LOC"
          /\ \A q \in 0..(PieceCount(j) - 1) : WordPieceInRecord(j, q)

\* ------------------------------------------------------------------ C4
\* C4: with the classifier token in front, in single-label and in nested mode
\* alike, label_ids[i] and label_mask[i] describe the token at input_ids[i]:
\* the classifier position carries '<START>', the first separator '<END>', a
\* position with mask 1 the label of the word whose first piece is there, and
\* continuation and padding positions the neutral label.
C4_IndexCorrespondence ==
    (RecordReturned /\ ~cls_token_at_end) =>
        /\ features.input_ids[ClsPos] = TokenId(cls_token)
        /\ features.label_ids[ClsPos] = ExpectedLabelEntry({"<START>"})
        /\ features.input_ids[FirstSepPos] = TokenId(sep_token)
        /\ features.label_ids[FirstSepPos] = ExpectedLabelEntry({"<END>"})
        /\ \A p \in 0..(KeptCount - 1) :
              /\ features.input_ids[PiecePos(p)] = TokenId(PieceAt(p))
              /\ features.label_mask[PiecePos(p)] = 1 <=> IsFirstPiece(p)
              /\ features.label_ids[PiecePos(p)] =
                    IF IsFirstPiece(p)
                    THEN ExpectedLabelEntry(MembersOf(example.labels[WordOfPiece(p)]))
                    ELSE NeutralEntry
        /\ \A i \in 1..max_seq_length :
              IsPaddingPos(i) => features.label_ids[i] = NeutralEntry

\* ------------------------------------------------------------------ C5
\* C5: the pieces of a returned record are the first max_seq_length - reserved
\* expanded pieces, in order, each with its label_ids and label_mask entry: an
\* example of exactly max_seq_length - reserved pieces keeps them all, one of
\* one piece more loses its last piece and nothing else.
C5_TruncationBoundary ==
    RecordReturned =>
        /\ ExpandedCount <= max_seq_length - Reserved => KeptCount = ExpandedCount
        /\ ExpandedCount = max_seq_length - Reserved + 1 => KeptCount = ExpandedCount - 1
        /\ \A p \in 0..(KeptCount - 1) :
              /\ features.input_ids[PiecePos(p)] = TokenId(PieceAt(p))
              /\ features.label_mask[PiecePos(p)] = (IF IsFirstPiece(p) THEN 1 ELSE -100)
              /\ features.label_ids[LabelPos(p)] =
                    IF IsFirstPiece(p)
                    THEN ExpectedLabelEntry(MembersOf(example.labels[WordOfPiece(p)]))
                    ELSE NeutralEntry
        /\ features.input_ids[FirstSepPos] = TokenId(sep_token)
        /\ \A i \in 1..max_seq_length :
              features.attention_mask[i] = 1 <=>
                  (i >= FirstSepPos - KeptCount - (IF cls_token_at_end THEN 0 ELSE 1)
                   /\ i < FirstSepPos + Reserved - (IF cls_token_at_end THEN 0 ELSE 1))

C5_Witness ==
    /\ RecordReturned /\ WellFormed
    /\ ExpandedCount = max_seq_length - Reserved + 1
    /\ KeptCount > 0
    /\ ~IsFirstPiece(ExpandedCount - 1)
    /\ features.input_ids[PiecePos(KeptCount - 1)] = TokenId(PieceAt(KeptCount - 1))
    /\ features.input_ids[FirstSepPos] = TokenId(sep_token)

\* ------------------------------------------------------------------ C9
\* C9: an example with len(tokens) != len(labels) is rejected: the encoder
\* returns no record for it.
C9_MalformedRejected ==
    (pc = "done" /\ ~WellFormed) => features.status # "ok"

\* ------------------------------------------------------------------ C6
\* The labels observed in the corpus.
ObservedLabels ==
    {l \in Range(LabelOrder) :
        \E r \in 1..Len(labels_list) : \E j \in 1..Len(labels_list[r]) :
            IF ~is_nested THEN labels_list[r][j] = l
            ELSE l \in Range(labels_list[r][j])}

StrictlySorted(q) == \A m, n \in 1..Len(q) : m < n => Rank(q[m]) < Rank(q[n])

\* The shape of the list get_labels returns.
LabelListShape ==
    pc \in {"labels", "mapped"} =>
        /\ Len(label_list) >= 3
        /\ label_list[1] = "<PAD>"
        /\ label_list[2] = "<START>"
        /\ label_list[Len(label_list)] = "<END>"
        /\ StrictlySorted(SubSeq(label_list, 3, Len(label_list) - 1))
        /\ Range(SubSeq(label_list, 3, Len(label_list) - 1))
               = ObservedLabels

\* C6: for every corpus, one whose labels spell a sentinel included, get_labels
\* returns '<PAD>', '<START>', the sorted distinct labels, '<END>', and the
\* label_map built from it maps each string of the list to its position (a
\* bijection) with '<PAD>' at 0.
C6_LabelVocabulary ==
    /\ LabelListShape
    /\ pc = "mapped" =>
          /\ DOMAIN label_map = Range(label_list)
          /\ \A n \in 1..Len(label_list) : label_map[label_list[n]] = n - 1
          /\ label_map["<PAD>"] = 0

\* ------------------------------------------------------------------ C10
\* C10: every InputExample of get_examples has as many labels as tokens, with
\* or without y, nested or not; without y every word has the label 'O' (nested:
\* a label containing 'O').
C10_ExampleInvariant ==
    pc \in {"examples", "labels", "mapped"} =>
        /\ Len(examples) = Len(X)
        /\ \A i \in 1..Len(examples) :
              /\ examples[i].tokens = X[i]
              /\ Len(examples[i].tokens) = Len(examples[i].labels)
              /\ y.none => \A j \in 1..Len(examples[i].labels) :
                              IF ~is_nested THEN examples[i].labels[j] = "O"
                              ELSE "O" \in Range(examples[i].labels[j])

\* ------------------------------------------------------------------ C7
\* C7: a returned dataset has one row per example, row i of each of the five
\* columns is the record of example i, and the encoder was invoked exactly once
\* per example.
C7_OutputOrder ==
    pc = "done" =>
        /\ \A k \in 1..Len(examples) : encode_calls[k] = 1
        /\ Len(dataset.input_ids) = Len(examples)
        /\ Len(dataset.attention_mask) = Len(examples)
        /\ Len(dataset.token_type_ids) = Len(examples)
        /\ Len(dataset.label_ids) = Len(examples)
        /\ Len(dataset.label_mask) = Len(examples)
        /\ \A k \in 1..Len(examples) :
              LET rec == part_fn(examples[k], max_seq_length, LabelMap(label_list), is_nested)
              IN  /\ dataset.input_ids[k] = rec.input_ids
                  /\ dataset.attention_mask[k] = rec.attention_mask
                  /\ dataset.token_type_ids[k] = rec.token_type_ids
                  /\ dataset.label_ids[k] = rec.label_ids
                  /\ dataset.label_mask[k] = rec.label_mask

C7_Witness ==
    /\ pc = "done"
    /\ Len(examples) > chunksize
    /\ Len(dataset.input_ids) = Len(examples)
    /\ dataset.input_ids[1] # dataset.input_ids[2]
    /\ dataset.label_ids[chunksize] # dataset.label_ids[chunksize + 1]

\* ------------------------------------------------------------------ C8
\* The dataset the processor's examples encode to.
FreshDataset ==
    convert_examples_to_features(
        get_examples(X, IF y.none THEN X ELSE y.rows, y.none, is_nested),
        max_seq_length,
        IF evaluate THEN args_label_list
        ELSE get_labels(IF y.none THEN full_like_O(X, is_nested) ELSE y.rows, is_nested),
        is_nested)

InCall == pc \in {"load", "create", "save", "return", "raised"}

\* C8: a call returns the stored dataset without encoding only when its cache
\* file exists and neither evaluate nor overwrite_cache is set; with evaluate or
\* overwrite_cache set it encodes the processor's examples; the cache file is
\* written only by a call without evaluate, once, after its dataset is built,
\* and no other file is touched.
C8_CacheGating ==
    InCall =>
        /\ hist.loaded => (hist.existed /\ ~evaluate /\ ~overwrite_cache
                           /\ hist.encodes = 0
                           /\ dataset = hist.at_entry[ThisFile].data)
        /\ (pc = "return" /\ hist.encodes = 0) =>
               (hist.loaded /\ hist.existed /\ ~evaluate /\ ~overwrite_cache)
        /\ (pc = "return" /\ (evaluate \/ overwrite_cache)) =>
               (hist.encodes = 1 /\ ~hist.loaded
                /\ FreshDataset.status = "ok" /\ dataset = FreshDataset.dataset)
        /\ hist.writes <= 1
        /\ hist.writes = 0 => cache_files = hist.at_entry
        /\ hist.writes = 1 =>
               /\ ~evaluate
               /\ hist.encodes = 1
               /\ FreshDataset.status = "ok"
               /\ cache_files =
                     [hist.at_entry EXCEPT ![ThisFile] =
                         [exists |-> TRUE, data |-> FreshDataset.dataset]]
        /\ (pc = "return" /\ ~evaluate /\ hist.encodes = 1) => hist.writes = 1
        /\ pc = "raised" => (hist.writes = 0 /\ hist.encodes = 1)

C8_Witness ==
    /\ pc = "return"
    /\ hist.loaded /\ hist.existed /\ ~evaluate /\ ~overwrite_cache
    /\ hist.encodes = 0
    /\ dataset # EmptyDataset
    /\ dataset = cache_files[ThisFile].data
    /\ model_name_or_path = <<"models", "bert-base", "">>
    /\ \E f \in CacheFileNames : f[1] = "test" /\ cache_files[f].exists

====
